---- MODULE Spec2Model ----
(***************************************************************************)
(* The dark pool matching engine (class DarkPoolEngine) as a state        *)
(* machine.  One action per handler that the event loop runs to           *)
(* completion: submitOrder, cancelOrder, start, stop, one firing of the   *)
(* matching timer (runMatchingCycle with findMatches and executeMatches), *)
(* one firing of a settlement timer (executeMatch up to the executor      *)
(* call) and the two ways the executor call ends.                         *)
(*                                                                         *)
(* JavaScript values are written as strings: "" is a missing (falsy)      *)
(* field, "num:..." is a truthy value that is not a string.  Numbers that *)
(* can be Infinity or NaN are records [t, v].  No branch of the engine    *)
(* reads a Date.now() timestamp: a time that is returned, stored or       *)
(* published is written Now(n), the clock reading of that moment plus n   *)
(* milliseconds; the timestamp of an order object is left out.            *)
(***************************************************************************)
EXTENDS Integers, Sequences, FiniteSets, TLC

\* ---------------------------------------------------------------- bounds
\* submitOrder calls that admit an order (each takes a fresh uuid).
MaxOrders == 3
\* faults injected: executor calls that throw or reject, and exceptions
\* raised inside the try block of a matching pass.
MaxFailures == 1

\* ------------------------------------------------------- program constants
matchingInterval == 5000
minBatchSize == 2
executionDelayMin == 1000
executionDelayMax == 10000
DefaultAmount == 100
\* prices are counted in units of 1/NoiseDivisor of the smallest midpoint, so
\* that 0.001 * 0.5 * midpoint is a whole number: midpoint \div NoiseDivisor.
NoiseDivisor == 2000

VARIABLES
    orderBooks,      \* this.orderBooks: a Map, here the sequence of its entries
    pendingMatches,  \* this.pendingMatches: nullifier -> execution record
    stats,           \* this.stats
    running,         \* this.running
    matchingTimer,   \* the number of active setInterval timers (the field
                     \* holds the handle of the one start() made last)
    anoncoinService, \* TRUE when the constructor was given an executor
    scheduled,       \* matches handed to setTimeout (with the delay and the
                     \* pass that dispatched them) or waiting for executeSwap
    emitted,         \* events published with io.to(room).emit, oldest first
    uuid,            \* uuids handed out so far: [order, match]; the uuid of
                     \* an executeMatch call is named after its match
    failures,        \* faults injected so far
    last             \* the handler that ran last, with what it returned

vars == <<orderBooks, pendingMatches, stats, running, matchingTimer,
          anoncoinService, scheduled, emitted, uuid, failures, last>>

\* ------------------------------------------------------------ JS numbers
Num(n) == [t |-> "num", v |-> n]
Infinity == [t |-> "inf", v |-> 1]
NegInfinity == [t |-> "inf", v |-> -1]
NaN == [t |-> "nan", v |-> 0]

JsAdd(a, b) ==
    IF a.t = "nan" \/ b.t = "nan" THEN NaN
    ELSE IF a.t = "inf" /\ b.t = "inf" THEN (IF a.v = b.v THEN a ELSE NaN)
    ELSE IF a.t = "inf" THEN a
    ELSE IF b.t = "inf" THEN b
    ELSE Num(a.v + b.v)

Sign(n) == IF n > 0 THEN 1 ELSE IF n < 0 THEN -1 ELSE 0

JsMul(a, b) ==
    IF a.t = "nan" \/ b.t = "nan" THEN NaN
    ELSE IF a.t = "inf" \/ b.t = "inf"
         THEN (IF Sign(a.v) * Sign(b.v) = 0 THEN NaN
               ELSE [t |-> "inf", v |-> Sign(a.v) * Sign(b.v)])
    ELSE Num(a.v * b.v)

\* Math.max(0, x)
MathMax0(x) ==
    IF x.t = "nan" THEN NaN
    ELSE IF x.t = "inf" THEN (IF x.v > 0 THEN Infinity ELSE Num(0))
    ELSE IF x.v > 0 THEN x ELSE Num(0)

\* Math.min on the finite amounts of two orders
MathMin(a, b) == IF a < b THEN a ELSE b

\* Date.now() + n
Now(n) == [t |-> "now", v |-> n]

Null == [null |-> TRUE]

\* ------------------------------------------------------------ the inputs
IsString(x) == x \notin {"num:7", "num:42"}
Truthy(x) == x # ""

\* What JSON.parse(Buffer.from(payload, 'base64').toString()) yields for the
\* payloads of the model: ok = FALSE when it throws; a field that is absent
\* from the JSON (or 0) reads as 0, which is falsy like undefined.
PayloadJson(p) ==
    CASE p = "a0"  -> [ok |-> TRUE, amount |-> 0, maxPrice |-> 0, minPrice |-> 0]
      [] p = "a10" -> [ok |-> TRUE, amount |-> 10, maxPrice |-> 4000, minPrice |-> 0]
      [] p = "a15" -> [ok |-> TRUE, amount |-> 15, maxPrice |-> 0, minPrice |-> 4000]
      [] OTHER     -> [ok |-> FALSE, amount |-> 0, maxPrice |-> 0, minPrice |-> 0]

\* The amount an order's payload carries; -1 when it carries none.
PayloadAmount(p) == IF PayloadJson(p).ok THEN PayloadJson(p).amount ELSE -1

\* Buffer.from(encryptedSide, 'base64')[0]: the first byte, -1 for undefined
\* (an empty buffer); it throws for a value that is no string.
FirstByte(s) ==
    CASE s = "AA==" -> 0
      [] s = "AQ==" -> 1
      [] OTHER      -> -1

\* --------------------------------------------------- the Map of order books
Has(books, k) == \E i \in 1..Len(books) : books[i].key = k

Get(books, k) == books[CHOOSE i \in 1..Len(books) : books[i].key = k].orders

\* Map.set: a new key is appended (Map iterates in insertion order).
MapSet(books, k, v) ==
    IF Has(books, k)
    THEN [i \in 1..Len(books) |->
             IF books[i].key = k THEN [key |-> k, orders |-> v] ELSE books[i]]
    ELSE Append(books, [key |-> k, orders |-> v])

\* every order object that is in some book
AllOrders(books) == UNION {{books[i].orders[j] : j \in 1..Len(books[i].orders)}
                            : i \in 1..Len(books)}

\* An assignment to order.status through a reference to the order object: it
\* shows in whichever book still holds that object (the one with this id).
SetStatus(books, id, st) ==
    [i \in 1..Len(books) |->
        [key |-> books[i].key,
         orders |-> [j \in 1..Len(books[i].orders) |->
                        IF books[i].orders[j].id = id
                        THEN [books[i].orders[j] EXCEPT !.status = st]
                        ELSE books[i].orders[j]]]]

RemoveAt(s, i) == SubSeq(s, 1, i - 1) \o SubSeq(s, i + 1, Len(s))

RECURSIVE Filter(_, _)
\* Array.prototype.filter, keeping the orders whose id is not in ids
Filter(s, ids) ==
    IF s = <<>> THEN <<>>
    ELSE IF Head(s).id \in ids THEN Filter(Tail(s), ids)
    ELSE <<Head(s)>> \o Filter(Tail(s), ids)

\* --------------------------------------------------------------- submit
\* the check of encryptedSide left out, as in the route's own field check
validateWithoutSide(order) ==
    /\ Truthy(order.payload)
    /\ Truthy(order.commitment)
    /\ Truthy(order.nullifier)
    /\ Truthy(order.tokenAddress)

validateEncryptedOrder(order) ==
    /\ Truthy(order.payload)
    /\ Truthy(order.commitment)
    /\ Truthy(order.nullifier)
    /\ Truthy(order.tokenAddress)
    /\ Truthy(order.encryptedSide)

NewOrder(encryptedOrder, orderId) ==
    [id |-> orderId,
     encryptedPayload |-> encryptedOrder.payload,
     commitment |-> encryptedOrder.commitment,
     nullifier |-> encryptedOrder.nullifier,
     tokenAddress |-> encryptedOrder.tokenAddress,
     status |-> "pending",
     encryptedSide |-> encryptedOrder.encryptedSide]

\* how many of the five fields of a submitted order are missing
Missing(encryptedOrder) ==
    Cardinality({f \in {"payload", "commitment", "nullifier", "tokenAddress",
                        "encryptedSide"} : encryptedOrder[f] = ""})

\* the estimate without the matching interval
getEstimatedMatchTimeWithoutCycle ==
    LET executionDelay == (executionDelayMin + executionDelayMax) \div 2
    IN Now(executionDelay)

\* getEstimatedMatchTime()
getEstimatedMatchTime ==
    LET nextCycle == matchingInterval
        executionDelay == (executionDelayMin + executionDelayMax) \div 2
    IN Now(nextCycle + executionDelay)

\* the object submitOrder returns
Receipt(order) ==
    [orderId |-> order.id, timestamp |-> Now(0), status |-> "pending",
     estimatedMatchTime |-> getEstimatedMatchTime,
     commitment |-> order.commitment]

\* submitOrder(encryptedOrder).  An order that passes validation is pushed and
\* counted before the log line reads tokenAddress.substring, which throws a
\* TypeError for a tokenAddress that is not a string; otherwise the receipt
\* is returned.
submitOrder(encryptedOrder) ==
    IF ~validateEncryptedOrder(encryptedOrder)
    THEN /\ last' = [op |-> "submitOrder", missing |-> Missing(encryptedOrder),
                     threw |-> "Invalid order structure", orderId |-> 0,
                     admitted |-> Null, receipt |-> Null]
         /\ UNCHANGED <<orderBooks, pendingMatches, stats, running, matchingTimer,
                        anoncoinService, scheduled, emitted, uuid, failures>>
    ELSE /\ LET orderId == uuid.order + 1
                order == NewOrder(encryptedOrder, orderId)
                book == IF Has(orderBooks, order.tokenAddress)
                        THEN Get(orderBooks, order.tokenAddress) ELSE <<>>
            IN /\ orderBooks' = MapSet(orderBooks, order.tokenAddress,
                                       Append(book, order))
               /\ stats' = [stats EXCEPT !.totalOrders = @ + 1]
               /\ uuid' = [uuid EXCEPT !.order = orderId]
               /\ last' = [op |-> "submitOrder", missing |-> Missing(encryptedOrder),
                           threw |-> IF IsString(order.tokenAddress)
                                     THEN "" ELSE "TypeError",
                           orderId |-> orderId,
                           admitted |-> encryptedOrder,
                           receipt |-> IF IsString(order.tokenAddress)
                                       THEN Receipt(order) ELSE Null]
         /\ UNCHANGED <<pendingMatches, running, matchingTimer, anoncoinService,
                        scheduled, emitted, failures>>

\* --------------------------------------------------------------- cancel
\* the commitment left out of the findIndex predicate
CancelHitByNullifier(o, nullifier, commitment) ==
    o.nullifier = nullifier /\ o.status = "pending"

CancelHit(o, nullifier, commitment) ==
    o.nullifier = nullifier /\ o.commitment = commitment /\ o.status = "pending"

\* orders.findIndex(...): the first index that matches, 0 for -1
FindIndex(orders, nullifier, commitment) ==
    IF \E j \in 1..Len(orders) : CancelHit(orders[j], nullifier, commitment)
    THEN CHOOSE j \in 1..Len(orders) :
            /\ CancelHit(orders[j], nullifier, commitment)
            /\ \A k \in 1..(j - 1) : ~CancelHit(orders[k], nullifier, commitment)
    ELSE 0

\* splice taking the element after the one found
CancelBooksNextIndex(books, nullifier, commitment) ==
    IF \E i \in 1..Len(books) : FindIndex(books[i].orders, nullifier, commitment) # 0
    THEN LET i == CHOOSE i \in 1..Len(books) :
                     /\ FindIndex(books[i].orders, nullifier, commitment) # 0
                     /\ \A k \in 1..(i - 1) :
                            FindIndex(books[k].orders, nullifier, commitment) = 0
             index == FindIndex(books[i].orders, nullifier, commitment)
         IN [books EXCEPT ![i].orders = RemoveAt(@, index + 1)]
    ELSE books

\* the books after cancelOrder: the first book (in Map order) with a hit loses
\* that one order; no hit leaves the books as they are
CancelBooks(books, nullifier, commitment) ==
    IF \E i \in 1..Len(books) : FindIndex(books[i].orders, nullifier, commitment) # 0
    THEN LET i == CHOOSE i \in 1..Len(books) :
                     /\ FindIndex(books[i].orders, nullifier, commitment) # 0
                     /\ \A k \in 1..(i - 1) :
                            FindIndex(books[k].orders, nullifier, commitment) = 0
             index == FindIndex(books[i].orders, nullifier, commitment)
         IN [books EXCEPT ![i].orders = RemoveAt(@, index)]
    ELSE books

cancelOrder(nullifier, commitment) ==
    /\ orderBooks' = CancelBooks(orderBooks, nullifier, commitment)
    /\ last' = [op |-> "cancelOrder", nullifier |-> nullifier,
                commitment |-> commitment, threw |-> "",
                success |-> \E i \in 1..Len(orderBooks) :
                    FindIndex(orderBooks[i].orders, nullifier, commitment) # 0]
    /\ UNCHANGED <<pendingMatches, stats, running, matchingTimer, anoncoinService,
                   scheduled, emitted, uuid, failures>>

\* ---------------------------------------------------------- start / stop
\* start() without its guard
startUnguarded ==
    /\ running' = TRUE
    /\ matchingTimer' = matchingTimer + 1
    /\ last' = [op |-> "start", returnedEarly |-> FALSE]
    /\ UNCHANGED <<orderBooks, pendingMatches, stats, anoncoinService,
                   scheduled, emitted, uuid, failures>>

\* start(): a second call while running returns at once; otherwise one
\* setInterval is added
start ==
    /\ running' = TRUE
    /\ matchingTimer' = (IF running THEN matchingTimer ELSE matchingTimer + 1)
    /\ last' = [op |-> "start", returnedEarly |-> running]
    /\ UNCHANGED <<orderBooks, pendingMatches, stats, anoncoinService,
                   scheduled, emitted, uuid, failures>>

\* stop() clearing also the settlement timers that wait
stopClearsSettlements ==
    /\ running' = FALSE
    /\ matchingTimer' = (IF running /\ matchingTimer > 0
                         THEN matchingTimer - 1 ELSE matchingTimer)
    /\ scheduled' = {x \in scheduled : x.stage # "timer"}
    /\ last' = [op |-> "stop", returnedEarly |-> ~running]
    /\ UNCHANGED <<orderBooks, pendingMatches, stats, anoncoinService,
                   emitted, uuid, failures>>

\* stop(): a call while stopped returns at once; otherwise clearInterval
\* ends the timer whose handle the field holds
stop ==
    /\ running' = FALSE
    /\ matchingTimer' = (IF running /\ matchingTimer > 0
                         THEN matchingTimer - 1 ELSE matchingTimer)
    /\ last' = [op |-> "stop", returnedEarly |-> ~running]
    /\ UNCHANGED <<orderBooks, pendingMatches, stats, anoncoinService,
                   scheduled, emitted, uuid, failures>>

\* -------------------------------------------------------------- matching
\* decryptSide: Buffer.from throws for a value that is no string and the catch
\* answers 'buy'; undefined % 2 is NaN, which is not 0, so 'sell'.
decryptSide(encryptedSide) ==
    IF ~IsString(encryptedSide) THEN "buy"
    ELSE IF FirstByte(encryptedSide) >= 0 /\ FirstByte(encryptedSide) % 2 = 0
         THEN "buy"
         ELSE "sell"

\* whether the encrypted side decodes to a side byte at all
SideResolves(encryptedSide) ==
    IsString(encryptedSide) /\ FirstByte(encryptedSide) >= 0

IsPending(o) == o.status = "pending"
IsBuy(o) == decryptSide(o.encryptedSide) = "buy"
IsSell(o) == decryptSide(o.encryptedSide) # "buy"

\* the filter left out: every order of the book is a candidate
PendingOrdersUnfiltered(orders) == orders

\* orders.filter(o => o.status === 'pending')
PendingOrders(orders) == SelectSeq(orders, IsPending)

\* the partition loop of findMatches, before the shuffle
BuyOrders(orders) == SelectSeq(PendingOrders(orders), IsBuy)
\* every pending order pushed to sellOrders, whatever its side
SellOrdersOfAnySide(orders) == PendingOrders(orders)
SellOrders(orders) == SelectSeq(PendingOrders(orders), IsSell)

RECURSIVE Shuffles(_)
\* shuffleArray: every order of the array is a possible outcome
Shuffles(s) ==
    IF s = <<>> THEN {<<>>}
    ELSE UNION {{<<s[i]>> \o rest : rest \in Shuffles(RemoveAt(s, i))}
                : i \in 1..Len(s)}

OrderIds(s) == [i \in 1..Len(s) |-> s[i].id]

\* the reference to an order object that a match holds (its status is read
\* and written through the book)
OrderRef(o) ==
    [id |-> o.id, encryptedPayload |-> o.encryptedPayload,
     commitment |-> o.commitment, nullifier |-> o.nullifier,
     tokenAddress |-> o.tokenAddress, encryptedSide |-> o.encryptedSide]

\* the pairing loop stopping one pair early
MinMatchesOneShort(buyOrders, sellOrders) ==
    IF MathMin(Len(buyOrders), Len(sellOrders)) > 0
    THEN MathMin(Len(buyOrders), Len(sellOrders)) - 1
    ELSE 0

\* Math.min(buyOrders.length, sellOrders.length)
MinMatches(buyOrders, sellOrders) == MathMin(Len(buyOrders), Len(sellOrders))

\* findMatches(tokenAddress, orders): one result per outcome of the two
\* shuffles.  matches get the uuids after firstId; orders is the array after
\* the status assignments; pending and the two partitions (as they are
\* before the shuffle) are recorded for the observer.
findMatches(tokenAddress, orders, firstId) ==
    {LET n == MinMatches(buyOrders, sellOrders)
         matched == {buyOrders[i].id : i \in 1..n} \cup {sellOrders[i].id : i \in 1..n}
     IN [tokenAddress |-> tokenAddress,
         pending |-> OrderIds(PendingOrders(orders)),
         buyOrders |-> OrderIds(BuyOrders(orders)),
         sellOrders |-> OrderIds(SellOrders(orders)),
         matches |-> [i \in 1..n |->
                        [id |-> firstId + i,
                         buyOrder |-> OrderRef(buyOrders[i]),
                         sellOrder |-> OrderRef(sellOrders[i]),
                         tokenAddress |-> tokenAddress]],
         orders |-> [j \in 1..Len(orders) |->
                        IF orders[j].id \in matched
                        THEN [orders[j] EXCEPT !.status = "matched"]
                        ELSE orders[j]]]
     : buyOrders \in Shuffles(BuyOrders(orders)),
       sellOrders \in Shuffles(SellOrders(orders))}

\* the gate skipping also a book of exactly minBatchSize orders
SkipsTokenAtBatchSize(orders) == Len(orders) <= minBatchSize

\* the gate of runMatchingCycle: orders.length < minBatchSize skips the token
SkipsToken(orders) == Len(orders) < minBatchSize

\* what the observer records of one turn of the loop of runMatchingCycle:
\* the findMatches call and where an exception was raised, if one was
Call(r, matches, raised) ==
    [tokenAddress |-> r.tokenAddress, pending |-> r.pending,
     buyOrders |-> r.buyOrders, sellOrders |-> r.sellOrders,
     matches |-> matches, raised |-> raised]

\* a findMatches call that raised before it had partitioned the orders
Aborted(tokenAddress, orders) ==
    [tokenAddress |-> tokenAddress, pending |-> OrderIds(PendingOrders(orders)),
     buyOrders |-> <<>>, sellOrders |-> <<>>, matches |-> <<>>,
     raised |-> "findMatches"]

RECURSIVE Formed(_)
\* the matches the findMatches calls of a pass have made (one uuid each)
Formed(calls) ==
    IF calls = <<>> THEN 0 ELSE Len(Head(calls).matches) + Formed(Tail(calls))

\* the turns of the loop in which executeMatches raised (these count as
\* faults injected: they leave orders matched that no timer settles)
Raised(calls) ==
    Cardinality({k \in 1..Len(calls) : calls[k].raised = "executeMatches"})

RECURSIVE CycleResults(_, _, _, _)
\* an exception that leaves the loop instead of being caught in it
CycleResultsFaultEndsPass(i, books, matches, calls) ==
    IF i > Len(books) THEN {[books |-> books, matches |-> matches, calls |-> calls]}
    ELSE IF SkipsToken(books[i].orders)
         THEN CycleResults(i + 1, books, matches, calls)
         ELSE LET found == findMatches(books[i].key, books[i].orders,
                                       uuid.match + Formed(calls))
                  returned ==
                      UNION {CycleResults(i + 1,
                                          [books EXCEPT ![i].orders = r.orders],
                                          matches \o r.matches,
                                          Append(calls, Call(r, r.matches, "")))
                             : r \in found}
                  inFindMatches ==
                      {[books |-> books, matches |-> matches,
                        calls |-> Append(calls, Aborted(books[i].key, books[i].orders))]}
                  inExecuteMatches ==
                      {[books |-> [books EXCEPT ![i].orders = r.orders],
                        matches |-> matches,
                        calls |-> Append(calls, Call(r, r.matches, "executeMatches"))]
                       : r \in {x \in found : x.matches # <<>>}}
              IN returned \cup inFindMatches
                     \cup (IF failures + Raised(calls) < MaxFailures
                          THEN inExecuteMatches ELSE {})

\* runMatchingCycle from the i-th entry of the Map on: every way the pass can
\* end, as the books, the matches handed to setTimeout (in order) and the
\* turns of the loop.  The code of findMatches and executeMatches has no
\* throw of its own; the try block is there for an exception of the runtime
\* (uuidv4, an allocation), which is injected here at two places: in
\* findMatches before it has changed an order, and in executeMatches before
\* its first setTimeout.  The catch block logs it and the loop goes on.
CycleResults(i, books, matches, calls) ==
    IF i > Len(books) THEN {[books |-> books, matches |-> matches, calls |-> calls]}
    ELSE IF SkipsToken(books[i].orders)
         THEN CycleResults(i + 1, books, matches, calls)
         ELSE LET found == findMatches(books[i].key, books[i].orders,
                                       uuid.match + Formed(calls))
                  returned ==
                      UNION {CycleResults(i + 1,
                                          [books EXCEPT ![i].orders = r.orders],
                                          matches \o r.matches,
                                          Append(calls, Call(r, r.matches, "")))
                             : r \in found}
                  inFindMatches ==
                      CycleResults(i + 1, books, matches,
                                   Append(calls, Aborted(books[i].key, books[i].orders)))
                  inExecuteMatches ==
                      UNION {CycleResults(i + 1,
                                          [books EXCEPT ![i].orders = r.orders],
                                          matches,
                                          Append(calls,
                                                 Call(r, r.matches, "executeMatches")))
                             : r \in {x \in found : x.matches # <<>>}}
              IN returned \cup inFindMatches
                     \cup (IF failures + Raised(calls) < MaxFailures
                          THEN inExecuteMatches ELSE {})

\* Math.floor(Math.random() * n) for Math.random() = 0 ("lo"), 0.5 ("mid") and
\* the largest value below 1 ("hi")
RandomTimes(random, n) ==
    IF random = "lo" THEN 0
    ELSE IF random = "mid" THEN n \div 2
    ELSE n - 1

\* the delay without the lower end of the window
getRandomDelayFromZero(random) ==
    RandomTimes(random, executionDelayMax - executionDelayMin)

\* getRandomDelay()
getRandomDelay(random) ==
    RandomTimes(random, executionDelayMax - executionDelayMin) + executionDelayMin

\* the values of Math.random() that getRandomDelay is run with
DelayRandoms == {"lo", "hi"}

\* executeMatches: each match goes to its own setTimeout, with the delay of
\* its own getRandomDelay call; pass tells the passes apart
Dispatch(matches, randoms, pass) ==
    {[match |-> matches[i], stage |-> "timer", executionId |-> 0,
      price |-> Num(0), amount |-> 0,
      delay |-> getRandomDelay(randoms[i]), pass |-> pass] : i \in 1..Len(matches)}

\* One firing of the matching timer.  The awaits inside the pass resume in
\* microtasks, so no other handler runs between two tokens of a pass.
runMatchingCycle ==
    /\ matchingTimer > 0
    /\ \E r \in CycleResults(1, orderBooks, <<>>, <<>>) :
          \E randoms \in [1..Len(r.matches) -> DelayRandoms] :
             /\ orderBooks' = r.books
             /\ scheduled' = scheduled \cup Dispatch(r.matches, randoms, uuid.match)
             /\ uuid' = [uuid EXCEPT !.match = @ + Formed(r.calls)]
             /\ failures' = failures + Raised(r.calls)
             /\ last' = [op |-> "runMatchingCycle", before |-> orderBooks,
                         calls |-> r.calls, matches |-> r.matches]
    /\ UNCHANGED <<pendingMatches, stats, running, matchingTimer, anoncoinService,
                   emitted>>

\* ------------------------------------------------------------ settlement
\* decryptOrderForExecution: x || default takes the default for 0 as for a
\* missing field; a payload that does not parse takes all three defaults
decryptOrderForExecution(order) ==
    LET payload == PayloadJson(order.encryptedPayload)
    IN IF payload.ok
       THEN [amount |-> IF payload.amount # 0 THEN payload.amount ELSE DefaultAmount,
             maxPrice |-> IF payload.maxPrice # 0 THEN Num(payload.maxPrice) ELSE Infinity,
             minPrice |-> Num(payload.minPrice)]
       ELSE [amount |-> DefaultAmount, maxPrice |-> Infinity, minPrice |-> Num(0)]

\* x / 2 (the prices of the model are even)
JsHalf(x) == IF x.t = "num" THEN Num(x.v \div 2) ELSE x

\* (Math.random() - 0.5) * 0.001 * midpoint for Math.random() = 0 ("lo"), 0.5
\* ("mid") and the largest value below 1 ("hi"), in whole price units
Noise(random, midpoint) ==
    IF midpoint.t = "nan" THEN NaN
    ELSE IF midpoint.t = "inf"
         THEN (IF random = "lo" THEN [t |-> "inf", v |-> -midpoint.v]
               ELSE IF random = "mid" THEN NaN
               ELSE midpoint)
    ELSE LET bound == midpoint.v \div NoiseDivisor
         IN IF random = "lo" THEN Num(-bound)
            ELSE IF random = "mid" \/ bound = 0 THEN Num(0)
            ELSE Num(bound - 1)

calculateExecutionPrice(buyDetails, sellDetails, random) ==
    LET midpoint == JsHalf(JsAdd(buyDetails.maxPrice, sellDetails.minPrice))
    IN MathMax0(JsAdd(midpoint, Noise(random, midpoint)))

MatchedAmount(buyDetails, sellDetails) ==
    MathMin(buyDetails.amount, sellDetails.amount)

\* the filter dropping only the buy order
removeBuyOrderOnly(books, match) ==
    IF Has(books, match.tokenAddress)
    THEN MapSet(books, match.tokenAddress,
                Filter(Get(books, match.tokenAddress), {match.buyOrder.id}))
    ELSE books

\* the book of the token emptied instead of filtered
removeEveryOrder(books, match) ==
    IF Has(books, match.tokenAddress)
    THEN MapSet(books, match.tokenAddress, <<>>)
    ELSE books

\* the two ids filtered out of the book of every token
removeFromEveryBook(books, match) ==
    [i \in 1..Len(books) |->
        [key |-> books[i].key,
         orders |-> Filter(books[i].orders,
                           {match.buyOrder.id, match.sellOrder.id})]]

\* the two orders put back into the pool instead of taken out of the book
returnMatchedOrders(books, match) ==
    SetStatus(SetStatus(books, match.buyOrder.id, "pending"),
              match.sellOrder.id, "pending")

\* removeMatchedOrders(match)
removeMatchedOrders(books, match) ==
    IF Has(books, match.tokenAddress)
    THEN MapSet(books, match.tokenAddress,
                Filter(Get(books, match.tokenAddress),
                       {match.buyOrder.id, match.sellOrder.id}))
    ELSE books

Execution(s) ==
    [id |-> s.executionId, matchId |-> s.match.id,
     tokenAddress |-> s.match.tokenAddress,
     price |-> s.price, amount |-> s.amount,
     timestamp |-> Now(0),
     buyCommitment |-> s.match.buyOrder.commitment,
     sellCommitment |-> s.match.sellOrder.commitment,
     executedOnChain |-> TRUE, swapStatus |-> "completed"]

WithSide(execution, side, fillAmount) ==
    [id |-> execution.id, matchId |-> execution.matchId,
     tokenAddress |-> execution.tokenAddress,
     price |-> execution.price, amount |-> execution.amount,
     timestamp |-> execution.timestamp,
     buyCommitment |-> execution.buyCommitment,
     sellCommitment |-> execution.sellCommitment,
     executedOnChain |-> execution.executedOnChain,
     swapStatus |-> execution.swapStatus,
     side |-> side, fillAmount |-> fillAmount]

\* this.pendingMatches after the two set calls (the sell entry is set last)
NotifyParties(pm, s) ==
    (s.match.sellOrder.nullifier :> WithSide(Execution(s), "sell", s.amount))
        @@ (s.match.buyOrder.nullifier :> WithSide(Execution(s), "buy", s.amount))
        @@ pm

ExecutionEvent(s) ==
    [room |-> s.match.tokenAddress, tokenAddress |-> s.match.tokenAddress,
     price |-> s.price, amount |-> s.amount, timestamp |-> Now(0),
     executedOnChain |-> TRUE]

\* executeMatch after the executor call (or without an executor): the record,
\* the statistics, removeMatchedOrders, the event and the two notifications.
\* executor is the status of the result the executor returned ("none" for an
\* engine without executor); the code reads only its transactionId, for the
\* log.
Complete(s, executor) ==
    /\ stats' = [stats EXCEPT !.totalMatches = @ + 1,
                              !.totalExecuted = @ + 1,
                              !.totalVolume = JsAdd(@, JsMul(Num(s.amount), s.price)),
                              !.lastMatchTime = Now(0),
                              !.lastExecutionTime = Now(0)]
    /\ orderBooks' = removeMatchedOrders(orderBooks, s.match)
    /\ emitted' = Append(emitted, ExecutionEvent(s))
    /\ pendingMatches' = NotifyParties(pendingMatches, s)
    /\ scheduled' = {x \in scheduled : x.match.id # s.match.id}
    /\ last' = [op |-> "executeMatch", match |-> s.match, outcome |-> "completed",
                executor |-> executor, execution |-> Execution(s)]

\* only the buy order returned to the pool
RevertBuyOrderOnly(books, match) ==
    SetStatus(books, match.buyOrder.id, "pending")

\* both orders marked failed and left out of the pool
RevertToFailed(books, match) ==
    SetStatus(SetStatus(books, match.buyOrder.id, "failed"),
              match.sellOrder.id, "failed")

\* every matched order of every book returned to the pool
RevertEveryOrder(books, match) ==
    [i \in 1..Len(books) |->
        [key |-> books[i].key,
         orders |-> [j \in 1..Len(books[i].orders) |->
                        [books[i].orders[j] EXCEPT !.status = "pending"]]]]

\* The two orders after the catch blocks of executeMatch and of the timer
\* callback of executeMatches (both assign 'pending' to both orders)
RevertToPending(books, match) ==
    SetStatus(SetStatus(books, match.buyOrder.id, "pending"),
              match.sellOrder.id, "pending")

\* The catch blocks after a failed executor call: executor tells how the
\* call failed, "thrown" before it returned a promise or "rejected" after.
Fail(s, executor) ==
    /\ failures < MaxFailures
    /\ failures' = failures + 1
    /\ orderBooks' = RevertToPending(orderBooks, s.match)
    /\ scheduled' = {x \in scheduled : x.match.id # s.match.id}
    /\ last' = [op |-> "executeMatch", match |-> s.match, outcome |-> "failed",
                executor |-> executor]
    /\ UNCHANGED <<pendingMatches, stats, emitted>>

\* settlements finishing one after the other, in the order of their dispatch
BlockedByEarlierMatch(t) ==
    \E u \in scheduled : u.match.id < t.match.id

\* Whether another timer is due before the timer of t.  Timers fire in the
\* order of their expiry and, for one expiry, of their creation: a timer made
\* earlier with a delay that is not longer is due first, and so is one made
\* later in the same pass with a shorter delay.  A timer of a later pass is
\* due first or not, as matchingInterval and the time of that pass have it.
Blocked(t) ==
    \E u \in scheduled :
        /\ u.stage = "timer"
        /\ \/ u.match.id < t.match.id /\ u.delay <= t.delay
           \/ u.pass = t.pass /\ u.match.id > t.match.id /\ u.delay < t.delay

\* executeMatch before the executor call: the uuid of the execution, the
\* price and the amount of the match of timer t
Priced(t, random) ==
    LET buyDetails == decryptOrderForExecution(t.match.buyOrder)
        sellDetails == decryptOrderForExecution(t.match.sellOrder)
    IN [t EXCEPT !.stage = "swap",
                 !.executionId = t.match.id,
                 !.price = calculateExecutionPrice(buyDetails, sellDetails, random),
                 !.amount = MatchedAmount(buyDetails, sellDetails),
                 !.delay = 0]

\* A settlement timer fires: executeMatch runs up to the executor call, which
\* returns a promise or throws, or to its end when the engine has no executor.
settlementTimer(t) ==
    /\ t \in scheduled /\ t.stage = "timer"
    /\ ~Blocked(t)
    /\ \E random \in {"lo", "mid", "hi"} :
          \E s \in {Priced(t, random)} :
             IF anoncoinService
             THEN \/ /\ scheduled' = (scheduled \ {t}) \cup {s}
                     /\ last' = [op |-> "executeMatch", match |-> t.match,
                                 outcome |-> "swap", executor |-> "pending"]
                     /\ UNCHANGED <<orderBooks, pendingMatches, stats, emitted,
                                    failures>>
                  \/ Fail(s, "thrown")
             ELSE Complete(s, "none") /\ UNCHANGED failures
    /\ UNCHANGED <<running, matchingTimer, anoncoinService, uuid>>

\* The statuses of the result a call of the executor resolves with.  The
\* executor of the repository reports 'completed'; the engine takes its
\* executor from the caller, and one that reports a swap it has refused
\* resolves with another status.
ExecutorStatuses == {"completed", "failed"}

\* The promise of the executor call resolves: executeMatch runs to its end.
swapResolves(s, status) ==
    /\ s \in scheduled /\ s.stage = "swap"
    /\ Complete(s, status)
    /\ UNCHANGED <<running, matchingTimer, anoncoinService, uuid, failures>>

\* The promise of the executor call rejects.
swapRejects(s) ==
    /\ s \in scheduled /\ s.stage = "swap"
    /\ Fail(s, "rejected")
    /\ UNCHANGED <<running, matchingTimer, anoncoinService, uuid>>

\* The promise of the executor call resolves and io.to(room).emit throws
\* (an io that is missing or broken): the record is made, the statistics are
\* updated and removeMatchedOrders has run when the exception leaves
\* executeMatch through its catch block, which logs it; the catch block of
\* the timer callback then assigns 'pending' to the two order objects, which
\* are in no book any more.  The two pendingMatches.set calls are not
\* reached.  The exception counts as a fault injected.
emitThrows(s, status) ==
    /\ s \in scheduled /\ s.stage = "swap"
    /\ failures < MaxFailures
    /\ failures' = failures + 1
    /\ stats' = [stats EXCEPT !.totalMatches = @ + 1,
                              !.totalExecuted = @ + 1,
                              !.totalVolume = JsAdd(@, JsMul(Num(s.amount), s.price)),
                              !.lastMatchTime = Now(0),
                              !.lastExecutionTime = Now(0)]
    /\ orderBooks' = RevertToPending(removeMatchedOrders(orderBooks, s.match), s.match)
    /\ scheduled' = {x \in scheduled : x.match.id # s.match.id}
    /\ last' = [op |-> "executeMatch", match |-> s.match, outcome |-> "threw",
                executor |-> status]
    /\ UNCHANGED <<pendingMatches, emitted, running, matchingTimer,
                   anoncoinService, uuid>>

\* ---------------------------------------------------------------- status
\* getStats(), on the books and the statistics given; feeRate is 0.003
getStats(books, st) ==
    [totalOrders |-> st.totalOrders, totalMatches |-> st.totalMatches,
     totalVolume |-> st.totalVolume, totalExecuted |-> st.totalExecuted,
     lastMatchTime |-> st.lastMatchTime,
     lastExecutionTime |-> st.lastExecutionTime,
     pools |-> [k \in {books[i].key : i \in 1..Len(books)} |->
                  LET pending == Len(PendingOrders(Get(books, k)))
                  IN [pendingOrders |-> pending,
                      hasLiquidity |-> pending >= minBatchSize]],
     config |-> [matchingInterval |-> matchingInterval,
                 minBatchSize |-> minBatchSize, feeRate |-> "0.003"]]

\* checkMatchStatus(nullifier), on the Map pm
checkMatchStatus(pm, nullifier) ==
    IF nullifier \in DOMAIN pm THEN pm[nullifier] ELSE Null

\* --------------------------------------------------------- specification
Order(payload, commitment, nullifier, tokenAddress, encryptedSide) ==
    [payload |-> payload, commitment |-> commitment, nullifier |-> nullifier,
     tokenAddress |-> tokenAddress, encryptedSide |-> encryptedSide]

\* The orders submitted.  On T1 a buy of 10 and a sell whose payload carries
\* the amount 0; on T2 two orders whose side does not decode (one is taken as
\* a buy, one as a sell), one with a payload that does not parse and one of
\* 15.  Each can be submitted several times, which repeats its nullifier and
\* commitment; two of them share a nullifier across tokens.
ValidOrders ==
    {Order("a10", "c1", "n1", "T1", "AA=="),
     Order("a0", "c2", "n2", "T1", "AQ=="),
     Order("garbage", "c2", "n1", "T2", "num:7"),
     Order("a15", "c1", "n2", "T2", "!")}

\* the first of them with one field missing
InvalidOrders ==
    {Order("", "c1", "n1", "T1", "AA=="),
     Order("a10", "", "n1", "T1", "AA=="),
     Order("a10", "c1", "", "T1", "AA=="),
     Order("a10", "c1", "n1", "", "AA=="),
     Order("a10", "c1", "n1", "T1", "")}

EncryptedOrders == ValidOrders \cup InvalidOrders

Nullifiers == {"n1", "n2"}
Commitments == {"c1", "c2"}

Init ==
    /\ orderBooks = <<>>
    /\ pendingMatches = <<>>
    /\ stats = [totalOrders |-> 0, totalMatches |-> 0, totalVolume |-> Num(0),
                totalExecuted |-> 0, lastMatchTime |-> Null,
                lastExecutionTime |-> Null]
    /\ running = FALSE
    /\ matchingTimer = 0
    /\ anoncoinService \in BOOLEAN
    /\ scheduled = {}
    /\ emitted = <<>>
    /\ uuid = [order |-> 0, match |-> 0]
    /\ failures = 0
    /\ last = [op |-> "constructor"]

Next ==
    \/ \E encryptedOrder \in EncryptedOrders :
          /\ validateEncryptedOrder(encryptedOrder) => uuid.order < MaxOrders
          /\ submitOrder(encryptedOrder)
    \/ \E nullifier \in Nullifiers, commitment \in Commitments :
          cancelOrder(nullifier, commitment)
    \/ start
    \/ stop
    \/ runMatchingCycle
    \/ \E t \in scheduled : settlementTimer(t)
    \/ \E s \in scheduled, status \in ExecutorStatuses : swapResolves(s, status)
    \/ \E s \in scheduled : swapRejects(s)

Spec == Init /\ [][Next]_vars

\* The engine with four orders, two on each of two tokens, submitted once
\* each in this order, at any time; nobody cancels and the engine, once
\* started, is not stopped.  The four make two matches, in one pass or in
\* two, and the orders of the second token repeat the nullifiers of the
\* first.
PairOrders ==
    <<Order("a10", "c1", "n1", "T1", "AA=="),
      Order("a0", "c2", "n2", "T1", "AQ=="),
      Order("garbage", "c2", "n1", "T2", "num:7"),
      Order("a15", "c1", "n2", "T2", "!")>>

PairNext ==
    \/ /\ uuid.order < Len(PairOrders)
       /\ submitOrder(PairOrders[uuid.order + 1])
    \/ start
    \/ runMatchingCycle
    \/ \E t \in scheduled : settlementTimer(t)
    \/ \E s \in scheduled, status \in ExecutorStatuses : swapResolves(s, status)
    \/ \E s \in scheduled : swapRejects(s)

PairSpec == Init /\ [][PairNext]_vars

\* The engine with the four orders of PairOrders and an io whose emit can
\* throw.
PublishNext ==
    \/ PairNext
    \/ \E s \in scheduled, status \in ExecutorStatuses : emitThrows(s, status)

PublishSpec == Init /\ [][PublishNext]_vars

\* An order whose tokenAddress is a number (the route takes the fields of
\* the JSON body as they come and checks only that they are truthy).
NumericTokenOrders == {Order("a10", "c1", "n1", "num:42", "AA==")}

\* The engine taking orders of every kind, with cancels and matching passes.
IntakeNext ==
    \/ \E encryptedOrder \in EncryptedOrders \cup NumericTokenOrders :
          /\ validateEncryptedOrder(encryptedOrder) => uuid.order < MaxOrders
          /\ submitOrder(encryptedOrder)
    \/ \E nullifier \in Nullifiers, commitment \in Commitments :
          cancelOrder(nullifier, commitment)
    \/ start
    \/ runMatchingCycle

IntakeSpec == Init /\ [][IntakeNext]_vars

\* A firing of the matching timer in which nothing raises an exception.
PassWithoutFault ==
    /\ runMatchingCycle
    /\ \A k \in 1..Len(last'.calls) : last'.calls[k].raised = ""

\* The engine with its timer: setInterval fires the pass every
\* matchingInterval milliseconds for as long as the timer is not cleared,
\* and the runtime does not raise an exception in every pass.
FairSpec == Init /\ [][Next]_vars /\ WF_vars(PassWithoutFault)

\* The engine with the four orders of PairOrders, started and stopped at
\* any time, as the code runs when the runtime raises nothing of its own: a
\* pass ends without an exception.
SettleNext ==
    \/ /\ uuid.order < Len(PairOrders)
       /\ submitOrder(PairOrders[uuid.order + 1])
    \/ start
    \/ stop
    \/ PassWithoutFault
    \/ \E t \in scheduled : settlementTimer(t)
    \/ \E s \in scheduled, status \in ExecutorStatuses : swapResolves(s, status)
    \/ \E s \in scheduled : swapRejects(s)

\* the uuids of the matches that can be formed: one for every two orders and
\* one more for every failed settlement
MatchIds == 1..(Len(PairOrders) \div 2 + MaxFailures)

\* the timer of the match with this uuid fires
TimerOf(id) == \E t \in scheduled : t.match.id = id /\ settlementTimer(t)

\* the executor call for the match with this uuid ends
ExecutorEnds(id) ==
    \E s \in scheduled :
        /\ s.match.id = id
        /\ \/ \E status \in ExecutorStatuses : swapResolves(s, status)
           \/ swapRejects(s)

\* A timer set with setTimeout fires when its delay is over (stop() clears
\* only the interval timer) and every executor call ends.
SettleSpec ==
    /\ Init /\ [][SettleNext]_vars
    /\ \A id \in MatchIds : WF_vars(TimerOf(id)) /\ WF_vars(ExecutorEnds(id))

\* ================================================================ claims
\* What the claims read off a state: the orders of a book by status and side.
PendingAt(orders) == {j \in 1..Len(orders) : orders[j].status = "pending"}

SideAt(orders, side) ==
    {j \in PendingAt(orders) : decryptSide(orders[j].encryptedSide) = side}

MatchOrderIds(matches) ==
    {matches[m].buyOrder.id : m \in 1..Len(matches)}
        \cup {matches[m].sellOrder.id : m \in 1..Len(matches)}

\* the entry of the Map a findMatches call worked on
EntryOf(books, tokenAddress) ==
    CHOOSE i \in 1..Len(books) : books[i].key = tokenAddress

AfterPass == last.op = "runMatchingCycle"

\* C1: a findMatches run on a book with b pending buys and s pending sells
\* forms min(b, s) matches over 2 * min(b, s) distinct pending orders, which
\* become matched, and the |b - s| other pending orders stay pending.
C1_PairingConservation ==
    AfterPass =>
        \A k \in 1..Len(last.calls) :
            LET c == last.calls[k]
                i == EntryOf(last.before, c.tokenAddress)
                pre == last.before[i].orders
                post == orderBooks[i].orders
                b == Cardinality(SideAt(pre, "buy"))
                s == Cardinality(SideAt(pre, "sell"))
                n == IF b < s THEN b ELSE s
                paired == MatchOrderIds(c.matches)
            IN c.raised # "findMatches" =>
               /\ Len(c.matches) = n
               /\ Cardinality(paired) = 2 * n
               /\ paired \subseteq {pre[j].id : j \in PendingAt(pre)}
               /\ Len(post) = Len(pre)
               /\ \A j \in PendingAt(pre) :
                     /\ post[j].id = pre[j].id
                     /\ post[j].status =
                            IF pre[j].id \in paired THEN "matched" ELSE "pending"
               /\ Cardinality(PendingAt(post)) = (IF b < s THEN s - b ELSE b - s)

\* a pass that paired two orders of a token and left a third one pending
C1_Witness ==
    /\ AfterPass
    /\ \E k \in 1..Len(last.calls) :
          /\ Len(last.calls[k].matches) = 1
          /\ Len(last.calls[k].pending) = 3

\* C5: a pass forms no match for a token whose book holds fewer than
\* minBatchSize pending orders, whatever matched orders it also holds.
C5_LiquidityGate ==
    AfterPass =>
        \A i \in 1..Len(last.before) :
            Cardinality(PendingAt(last.before[i].orders)) < minBatchSize
                => \A m \in 1..Len(last.matches) :
                      last.matches[m].tokenAddress # last.before[i].key

\* a pass over a book that holds one pending order beside two matched ones
C5_Witness ==
    /\ AfterPass
    /\ \E i \in 1..Len(last.before) :
          /\ Len(last.before[i].orders) >= minBatchSize
          /\ Cardinality(PendingAt(last.before[i].orders)) = 1

\* C7: a pending order whose side does not resolve is in neither partition
\* and in no match of the pass, and is pending after it.
C7_UnresolvedSideSkipped ==
    AfterPass =>
        \A i \in 1..Len(last.before) :
            \A j \in PendingAt(last.before[i].orders) :
                LET o == last.before[i].orders[j]
                IN ~SideResolves(o.encryptedSide) =>
                      /\ o.id \notin MatchOrderIds(last.matches)
                      /\ \A k \in 1..Len(last.calls) :
                            /\ \A x \in 1..Len(last.calls[k].buyOrders) :
                                  last.calls[k].buyOrders[x] # o.id
                            /\ \A x \in 1..Len(last.calls[k].sellOrders) :
                                  last.calls[k].sellOrders[x] # o.id
                      /\ orderBooks[i].orders[j].status = "pending"

\* C8: no two orders of one book have the same nullifier.
C8_NullifierUnique ==
    \A i \in 1..Len(orderBooks) :
        \A j, k \in 1..Len(orderBooks[i].orders) :
            j # k => orderBooks[i].orders[j].nullifier # orderBooks[i].orders[k].nullifier

AllIds(books) == {o.id : o \in AllOrders(books)}

\* the orders of a match that are in the book of the match's token, with
\* the given status
InBookWith(books, match, status) ==
    /\ Has(books, match.tokenAddress)
    /\ \A id \in {match.buyOrder.id, match.sellOrder.id} :
          \E j \in 1..Len(Get(books, match.tokenAddress)) :
             /\ Get(books, match.tokenAddress)[j].id = id
             /\ Get(books, match.tokenAddress)[j].status = status

RecordsOfMatch(pm, matchId) == {n \in DOMAIN pm : pm[n].matchId = matchId}

\* C2: when the executor throws for a match, both orders are afterwards in
\* the token's book with status pending, the settlement has stored no
\* Execution record (none of this match exists and the lookup of either
\* nullifier answers as before), no statistic has changed and no event has
\* been published.
C2_FailureReversibility ==
    [][(last'.op = "executeMatch" /\ last'.outcome = "failed") =>
          LET m == last'.match
          IN /\ InBookWith(orderBooks', m, "pending")
             /\ RecordsOfMatch(pendingMatches', m.id) = {}
             /\ pendingMatches' = pendingMatches
             /\ checkMatchStatus(pendingMatches', m.buyOrder.nullifier)
                   = checkMatchStatus(pendingMatches, m.buyOrder.nullifier)
             /\ checkMatchStatus(pendingMatches', m.sellOrder.nullifier)
                   = checkMatchStatus(pendingMatches, m.sellOrder.nullifier)
             /\ stats' = stats
             /\ emitted' = emitted]_vars

\* the executor has thrown for a match while another order waits in the book
C2_Witness ==
    /\ last.op = "executeMatch" /\ last.outcome = "failed"
    /\ InBookWith(orderBooks, last.match, "pending")
    /\ Cardinality(AllOrders(orderBooks)) = 3

\* C3: cancelOrder with the nullifier and commitment of a matched order
\* returns not-found and leaves that order in its book, unchanged.
C3_MatchedNeverCancelled ==
    [][last'.op = "cancelOrder" =>
          \A o \in AllOrders(orderBooks) :
              (/\ o.status = "matched"
               /\ o.nullifier = last'.nullifier
               /\ o.commitment = last'.commitment)
                  => /\ ~last'.success
                     /\ o \in AllOrders(orderBooks')]_vars

\* C4: when the executor succeeds, both orders leave the token's book, the
\* lookup of each nullifier answers a record with the match's id and one
\* price and amount, totalExecuted grows by one and one event without party
\* fields is published to the token's room.
C4_SuccessEffects ==
    [][(last'.op = "executeMatch" /\ last'.outcome = "completed") =>
          LET m == last'.match
              buy == checkMatchStatus(pendingMatches', m.buyOrder.nullifier)
              sell == checkMatchStatus(pendingMatches', m.sellOrder.nullifier)
              event == emitted'[Len(emitted')]
          IN /\ InBookWith(orderBooks, m, "matched")
             /\ m.buyOrder.id \notin AllIds(orderBooks')
             /\ m.sellOrder.id \notin AllIds(orderBooks')
             /\ buy # Null /\ sell # Null
             /\ buy.matchId = m.id /\ sell.matchId = m.id
             /\ buy.price = sell.price /\ buy.amount = sell.amount
             /\ stats'.totalExecuted = stats.totalExecuted + 1
             /\ Len(emitted') = Len(emitted) + 1
             /\ SubSeq(emitted', 1, Len(emitted)) = emitted
             /\ event.room = m.tokenAddress /\ event.tokenAddress = m.tokenAddress
             /\ event.price = buy.price /\ event.amount = buy.amount
             /\ DOMAIN event = {"room", "tokenAddress", "price", "amount",
                                "timestamp", "executedOnChain"}]_vars

\* a buy of 10 and a sell of 100 with different nullifiers have settled
C4_Witness ==
    /\ last.op = "executeMatch" /\ last.outcome = "completed"
    /\ last.execution.amount = 10
    /\ decryptOrderForExecution(last.match.sellOrder).amount = DefaultAmount
    /\ last.match.buyOrder.nullifier # last.match.sellOrder.nullifier
    /\ last.match.buyOrder.nullifier \in DOMAIN pendingMatches
    /\ last.match.sellOrder.nullifier \in DOMAIN pendingMatches

\* C6: the amount of a settled match, and the fillAmount stored for both
\* nullifiers, is the smaller of the amounts the two payloads carry.
C6_AmountCorrectness ==
    (/\ last.op = "executeMatch" /\ last.outcome = "completed"
     /\ PayloadAmount(last.match.buyOrder.encryptedPayload) >= 0
     /\ PayloadAmount(last.match.sellOrder.encryptedPayload) >= 0)
        => LET a == PayloadAmount(last.match.buyOrder.encryptedPayload)
               b == PayloadAmount(last.match.sellOrder.encryptedPayload)
               least == IF a < b THEN a ELSE b
           IN /\ last.execution.amount = least
              /\ pendingMatches[last.match.buyOrder.nullifier].fillAmount = least
              /\ pendingMatches[last.match.sellOrder.nullifier].fillAmount = least

\* the pending orders a cancel call names, as places in the books
CancelTargets(books, nullifier, commitment) ==
    {p \in {<<i, j>> : i \in 1..Len(books), j \in 1..MaxOrders + 1} :
        /\ p[2] <= Len(books[p[1]].orders)
        /\ books[p[1]].orders[p[2]].nullifier = nullifier
        /\ books[p[1]].orders[p[2]].commitment = commitment
        /\ books[p[1]].orders[p[2]].status = "pending"}

\* C9: cancelOrder removes exactly one order, one that has the nullifier and
\* the commitment and is pending, and reports success; when there is no such
\* order it returns not-found, raises nothing and leaves the books, the
\* Execution records and the statistics as they were.
C9_CancelContract ==
    [][last'.op = "cancelOrder" =>
          LET targets == CancelTargets(orderBooks, last'.nullifier, last'.commitment)
          IN /\ last'.threw = ""
             /\ IF targets # {}
                THEN /\ last'.success
                     /\ \E p \in targets :
                           orderBooks' =
                              [orderBooks EXCEPT ![p[1]].orders =
                                  SubSeq(@, 1, p[2] - 1) \o SubSeq(@, p[2] + 1, Len(@))]
                ELSE /\ ~last'.success
                     /\ orderBooks' = orderBooks
                     /\ pendingMatches' = pendingMatches
                     /\ stats' = stats]_vars

\* a cancel with the nullifier of a pending order and another commitment,
\* and with the nullifier and commitment of a matched order, was refused
C9_Witness ==
    /\ last.op = "cancelOrder" /\ ~last.success
    /\ \E o \in AllOrders(orderBooks) :
          /\ o.nullifier = last.nullifier
          /\ o.commitment # last.commitment
          /\ o.status = "pending"
    /\ \E o \in AllOrders(orderBooks) :
          /\ o.nullifier = last.nullifier
          /\ o.commitment = last.commitment
          /\ o.status = "matched"

\* C10: a submit whose order lacks one of the five fields throws the
\* validation error and changes no book and not totalOrders.
C10_StructuralValidation ==
    [][(last'.op = "submitOrder" /\ last'.missing > 0) =>
          /\ last'.threw = "Invalid order structure"
          /\ orderBooks' = orderBooks
          /\ stats'.totalOrders = stats.totalOrders]_vars

\* an order with one field missing was refused while a book holds orders
C10_Witness ==
    /\ last.op = "submitOrder"
    /\ last.missing = 1
    /\ last.threw = "Invalid order structure"
    /\ AllOrders(orderBooks) # {}

\* the order ids that matches waiting for their settlement refer to
ScheduledIds == UNION {{x.match.buyOrder.id, x.match.sellOrder.id} : x \in scheduled}

\* C11: a submit that returns adds one order, with an id no other order has
\* and with status pending, at the end of the book of its tokenAddress (a
\* new book when the token had none) and changes no other book; totalOrders
\* grows by one; the receipt holds that id, status pending, the commitment
\* of the order and current time + matching interval + the midpoint of the
\* delay window.
C11_SubmitEffect ==
    [][(last'.op = "submitOrder" /\ last'.threw = "") =>
          LET a == last'.admitted
              old == IF Has(orderBooks, a.tokenAddress)
                     THEN Get(orderBooks, a.tokenAddress) ELSE <<>>
              new == Get(orderBooks', a.tokenAddress)
              o == new[Len(new)]
          IN /\ Has(orderBooks', a.tokenAddress)
             /\ new = Append(old, o)
             /\ orderBooks' = MapSet(orderBooks, a.tokenAddress, new)
             /\ Len(orderBooks') = Len(orderBooks)
                    + (IF Has(orderBooks, a.tokenAddress) THEN 0 ELSE 1)
             /\ o.id = last'.orderId
             /\ o.id \notin AllIds(orderBooks) \cup ScheduledIds
             /\ o.status = "pending"
             /\ o.tokenAddress = a.tokenAddress
             /\ o.commitment = a.commitment /\ o.nullifier = a.nullifier
             /\ stats'.totalOrders = stats.totalOrders + 1
             /\ last'.receipt.orderId = o.id
             /\ last'.receipt.status = "pending"
             /\ last'.receipt.commitment = a.commitment
             /\ last'.receipt.estimatedMatchTime
                    = Now(matchingInterval
                          + (executionDelayMin + executionDelayMax) \div 2)]_vars

\* a third order was admitted, into a book that held an order, beside the
\* book of another token
C11_Witness ==
    /\ last.op = "submitOrder" /\ last.threw = ""
    /\ last.receipt.orderId = 3
    /\ Len(orderBooks) = 2
    /\ Len(Get(orderBooks, last.admitted.tokenAddress)) = 2

\* the orders that a step takes from pending to matched
NewlyMatched(before, after) ==
    {o.id : o \in {x \in AllOrders(before) : x.status = "pending"}}
        \cap {o.id : o \in {x \in AllOrders(after) : x.status = "matched"}}

\* at most one interval timer, and one exactly when the engine is running
OneTimerWhenRunning(r, timers) == timers <= 1 /\ (timers = 1 <=> r)

\* C12: start() while running and stop() while stopped change nothing;
\* start() while stopped makes the engine running and stop() while running
\* makes it stopped; there is never more than one matching timer and there
\* is one exactly when the engine is running; no order goes from pending to
\* matched while the engine is stopped.
C12_SchedulerStateMachine ==
    [][/\ OneTimerWhenRunning(running, matchingTimer)
       /\ OneTimerWhenRunning(running', matchingTimer')
       /\ last'.op = "start" =>
             /\ running'
             /\ running => UNCHANGED <<orderBooks, pendingMatches, stats, running,
                                       matchingTimer, scheduled, emitted, uuid>>
       /\ last'.op = "stop" =>
             /\ ~running'
             /\ ~running => UNCHANGED <<orderBooks, pendingMatches, stats, running,
                                        matchingTimer, scheduled, emitted, uuid>>
       /\ last'.op \notin {"start", "stop"} => UNCHANGED <<running, matchingTimer>>
       /\ NewlyMatched(orderBooks, orderBooks') # {} => running /\ running']_vars

\* start() was called on a running engine that has matched orders, and
\* returned at once
C12_Witness ==
    /\ last.op = "start" /\ last.returnedEarly
    /\ \E o \in AllOrders(orderBooks) : o.status = "matched"

IsLiquid(entry) == Len(entry.orders) >= minBatchSize

\* the tokens a pass has to call findMatches for, in the order of the Map
LiquidTokens(books) ==
    LET liquid == SelectSeq(books, IsLiquid)
    IN [k \in 1..Len(liquid) |-> liquid[k].key]

\* C13: a pass makes one findMatches call for every token with liquidity,
\* in the order of the Map, also for the tokens after one for which matching
\* or dispatch raised an exception, and those calls pair their orders as
\* always; the pass leaves running and the matching timer as they were, and
\* so does a settlement that fails.
C13_FaultIsolation ==
    [][/\ last'.op = "runMatchingCycle" =>
             /\ [k \in 1..Len(last'.calls) |-> last'.calls[k].tokenAddress]
                    = LiquidTokens(orderBooks)
             /\ \A k \in 1..Len(last'.calls) :
                    LET c == last'.calls[k]
                        pre == Get(orderBooks, c.tokenAddress)
                        b == Cardinality(SideAt(pre, "buy"))
                        s == Cardinality(SideAt(pre, "sell"))
                    IN c.raised # "findMatches"
                          => Len(c.matches) = (IF b < s THEN b ELSE s)
             /\ \A k \in 1..Len(last'.calls) :
                    last'.calls[k].raised = ""
                       => MatchOrderIds(last'.calls[k].matches)
                             \subseteq MatchOrderIds(last'.matches)
             /\ running' = running /\ matchingTimer' = matchingTimer
             /\ matchingTimer' > 0
       /\ (last'.op = "executeMatch" /\ last'.outcome = "failed") =>
             running' = running /\ matchingTimer' = matchingTimer]_vars

\* a pass in which the first token raised an exception and the second token
\* was matched and dispatched
C13_Witness ==
    /\ AfterPass
    /\ Len(last.calls) = 2
    /\ last.calls[1].raised # ""
    /\ last.calls[2].raised = ""
    /\ Len(last.calls[2].matches) = 1
    /\ Len(last.matches) = 1
    /\ running

\* Whether the book of a token holds every order ever admitted for it and
\* these are not of both sides: no admitted order was cancelled (each one is
\* in a book or was settled, two per published event), no settlement was for
\* this token, and decryptSide answers one side for all its orders.  Such a
\* book has never held pending orders of both sides at once.
NeverBothSides(entry) ==
    /\ stats.totalOrders = Cardinality(AllOrders(orderBooks)) + 2 * Len(emitted)
    /\ \A e \in 1..Len(emitted) : emitted[e].tokenAddress # entry.key
    /\ \/ \A j \in 1..Len(entry.orders) : IsBuy(entry.orders[j])
       \/ \A j \in 1..Len(entry.orders) : IsSell(entry.orders[j])

\* C14: the orders of a book that has never held pending orders of both
\* sides at once are all pending, and checkMatchStatus answers none for the
\* nullifier of each.
C14_NoCounterOrder ==
    \A i \in 1..Len(orderBooks) :
        NeverBothSides(orderBooks[i]) =>
            \A j \in 1..Len(orderBooks[i].orders) :
                /\ orderBooks[i].orders[j].status = "pending"
                /\ checkMatchStatus(pendingMatches,
                                    orderBooks[i].orders[j].nullifier) = Null

\* the matches the findMatches calls of a pass have formed
FormedIds(calls) == UNION {MatchOrderIds(calls[k].matches) : k \in 1..Len(calls)}

\* C15: a cancel that succeeds takes one pending order with the nullifier
\* and the commitment out of its book and leaves every other order where it
\* is, with its status; an order that is not in the books is in no match a
\* pass forms and never returns to a book; with only a buy and a sell
\* submitted and one of them cancelled, the pass forms no match and the
\* other order stays pending.
C15_CancelBeforePass ==
    [][/\ (last'.op = "cancelOrder" /\ last'.success) =>
             \E o \in AllOrders(orderBooks) :
                /\ o.nullifier = last'.nullifier
                /\ o.commitment = last'.commitment
                /\ o.status = "pending"
                /\ o.id \notin AllIds(orderBooks')
                /\ orderBooks' =
                      [i \in 1..Len(orderBooks) |->
                          [key |-> orderBooks[i].key,
                           orders |-> Filter(orderBooks[i].orders, {o.id})]]
       /\ last'.op = "runMatchingCycle" =>
             /\ FormedIds(last'.calls) \subseteq AllIds(orderBooks)
             /\ MatchOrderIds(last'.matches) \subseteq AllIds(orderBooks)
             /\ (/\ stats.totalOrders = 2
                 /\ Cardinality(AllOrders(orderBooks)) = 1
                 /\ emitted = <<>>)
                   => /\ last'.matches = <<>>
                      /\ orderBooks' = orderBooks
                      /\ \A o \in AllOrders(orderBooks') : o.status = "pending"
       /\ \A id \in 1..uuid.order :
             id \notin AllIds(orderBooks) => id \notin AllIds(orderBooks')]_vars

\* of a buy and a sell submitted for one token, the buy was cancelled before
\* any pass had matched it: the sell is alone in the book, pending
C15_Witness ==
    /\ last.op = "cancelOrder" /\ last.success
    /\ last.nullifier = "n1" /\ last.commitment = "c1"
    /\ stats.totalOrders = 2 /\ uuid.match = 0 /\ running
    /\ Len(orderBooks) = 1
    /\ Len(orderBooks[1].orders) = 1
    /\ IsSell(orderBooks[1].orders[1]) /\ IsPending(orderBooks[1].orders[1])

Timers == {t \in scheduled : t.stage = "timer"}

\* the timer with the shortest delay of all that wait and, of those with
\* that delay, the one set first
ShortestDelay(t) ==
    \A u \in Timers \ {t} :
        t.delay < u.delay \/ (t.delay = u.delay /\ t.match.id < u.match.id)

\* C16: settlements do not wait for one another or hold up the callers.  A
\* settlement that waits for the executor can complete whatever else waits;
\* the timer with the shortest delay can fire whether or not other
\* settlements wait for the executor (so of two matches of one pass either
\* can complete first, as their delays have it); and while a settlement
\* waits a matching pass can run on a running engine, every submit and
\* every cancel can be served.
C16_IndependentSettlements ==
    /\ \A s \in scheduled :
          s.stage = "swap" => ENABLED swapResolves(s, "completed")
    /\ \A t \in Timers : ShortestDelay(t) => ENABLED settlementTimer(t)
    /\ scheduled # {} =>
          /\ matchingTimer > 0 => ENABLED runMatchingCycle
          /\ \A encryptedOrder \in EncryptedOrders : ENABLED submitOrder(encryptedOrder)
          /\ \A nullifier \in Nullifiers, commitment \in Commitments :
                ENABLED cancelOrder(nullifier, commitment)

\* of two matches dispatched in one pass the second has completed while the
\* first still waits for its timer
C16_Witness ==
    /\ last.op = "executeMatch" /\ last.outcome = "completed"
    /\ \E t \in Timers :
          /\ t.match.id = t.pass + 1
          /\ last.match.id = t.pass + 2

InWindow(t) == executionDelayMin <= t.delay /\ t.delay <= executionDelayMax

\* C17: every match a pass dispatches gets one timer of its own, with a
\* delay inside [executionDelayMin, executionDelayMax], and the pass itself
\* settles nothing; the settlement of a match runs in a later step than the
\* pass that dispatched it.
C17_DelayWindow ==
    [][/\ \A t \in Timers : InWindow(t)
       /\ \A t \in {x \in scheduled' : x.stage = "timer"} : InWindow(t)
       /\ last'.op = "runMatchingCycle" =>
             /\ \A m \in 1..Len(last'.matches) :
                    Cardinality({t \in scheduled' \ scheduled :
                                    /\ t.match = last'.matches[m]
                                    /\ t.stage = "timer"}) = 1
             /\ Cardinality(scheduled' \ scheduled) = Len(last'.matches)
             /\ scheduled \subseteq scheduled'
             /\ UNCHANGED <<pendingMatches, stats, emitted>>
       /\ last'.op = "executeMatch" =>
             \E t \in scheduled : t.match = last'.match]_vars

\* a pass has dispatched two matches, the first with the longest delay and
\* the second with the shortest
C17_Witness ==
    /\ AfterPass
    /\ Len(last.matches) = 2
    /\ \E t, u \in Timers :
          /\ t.match = last.matches[1] /\ u.match = last.matches[2]
          /\ t.delay = executionDelayMax - 1
          /\ u.delay = executionDelayMin

C19_AppendOnlyExecutions ==
    [][\A n \in DOMAIN pendingMatches :
          /\ checkMatchStatus(pendingMatches', n) # Null
          /\ checkMatchStatus(pendingMatches', n) = checkMatchStatus(pendingMatches, n)]_vars

\* the fields the claim allows in a record: token, price, amount,
\* timestamps, match id, outcome and the two commitments
RecordFields ==
    {"tokenAddress", "price", "amount", "timestamp", "matchId",
     "executedOnChain", "swapStatus", "buyCommitment", "sellCommitment"}

\* the aggregates of the statistics: the totals, the times of the last
\* match and settlement, the pools by token and the configuration
AggregateFields ==
    {"totalOrders", "totalMatches", "totalVolume", "totalExecuted",
     "lastMatchTime", "lastExecutionTime", "pools", "config"}

\* C20: a record that checkMatchStatus returns and a published event have
\* no field beyond token, price, amount, timestamps, match id, outcome and
\* the two commitments (so no payload, no order id and no wallet address),
\* and the result of getStats holds aggregates only, with a count of
\* pending orders and a liquidity flag for each token.
C20_PrivacyOfRecords ==
    /\ \A n \in DOMAIN pendingMatches :
          DOMAIN checkMatchStatus(pendingMatches, n) \subseteq RecordFields
    /\ \A e \in 1..Len(emitted) : DOMAIN emitted[e] \ {"room"} \subseteq RecordFields
    /\ DOMAIN getStats(orderBooks, stats) \subseteq AggregateFields
    /\ \A k \in DOMAIN getStats(orderBooks, stats).pools :
          DOMAIN getStats(orderBooks, stats).pools[k] = {"pendingOrders", "hasLiquidity"}

AfterCompletion == last.op = "executeMatch" /\ last.outcome = "completed"

\* the two order objects of a settled match are in no book and in no match
\* that waits (with them goes every copy of their payload)
OrdersDiscarded(match) ==
    \A id \in {match.buyOrder.id, match.sellOrder.id} :
        id \notin AllIds(orderBooks) \cup ScheduledIds

\* C21: after a settlement has completed, the engine holds neither of the
\* two order objects (so not their payloads) and holds no raw nullifier of
\* theirs: the nullifier itself is not a key of the Execution records.
C21_DiscardedIdentity ==
    AfterCompletion =>
        /\ OrdersDiscarded(last.match)
        /\ last.match.buyOrder.nullifier \notin DOMAIN pendingMatches
        /\ last.match.sellOrder.nullifier \notin DOMAIN pendingMatches

AfterFailure == last.op = "executeMatch" /\ last.outcome = "failed"

\* the order with this id, in the books
OrderOf(books, id) == CHOOSE o \in AllOrders(books) : o.id = id

\* whether a cancel with the nullifier and the commitment of the order with
\* this id succeeds and takes out of the book one order that is this one, or
\* one that differs from it in nothing but the id
Cancellable(books, id) ==
    LET o == OrderOf(books, id)
        after == CancelBooks(books, o.nullifier, o.commitment)
    IN /\ \E i \in 1..Len(books) : FindIndex(books[i].orders, o.nullifier, o.commitment) # 0
       /\ \E x \in AllOrders(books) :
             /\ [x EXCEPT !.id = id] = o
             /\ AllOrders(after) = AllOrders(books) \ {x}

\* whether the findMatches call of a pass for this token had the orders with
\* these ids among its pending orders
CandidatesIn(calls, tokenAddress, ids) ==
    \E k \in 1..Len(calls) :
        /\ calls[k].tokenAddress = tokenAddress
        /\ ids \subseteq {calls[k].pending[x] : x \in 1..Len(calls[k].pending)}

\* whether a pass has paired this buy order with this sell order
PairedIn(matches, buyId, sellId) ==
    \E k \in 1..Len(matches) :
        matches[k].buyOrder.id = buyId /\ matches[k].sellOrder.id = sellId

\* C22: after a failed settlement both orders are in the book of their
\* token with status pending and a cancel with the nullifier and commitment
\* of either succeeds; the next pass has both among the pending orders of
\* its findMatches call for the token, it can pair them with each other
\* again, and it can pair either with another pending order of the other
\* side when the book holds one.
C22_ReEligibleAfterFailure ==
    AfterFailure =>
        LET m == last.match
            both == {m.buyOrder.id, m.sellOrder.id}
            book == Get(orderBooks, m.tokenAddress)
            others == {book[j].id : j \in PendingAt(book)} \ both
        IN /\ InBookWith(orderBooks, m, "pending")
           /\ \A id \in both : Cancellable(orderBooks, id)
           /\ matchingTimer > 0 =>
                 /\ ~ENABLED (/\ runMatchingCycle
                              /\ ~CandidatesIn(last'.calls, m.tokenAddress, both))
                 /\ ENABLED (/\ runMatchingCycle
                             /\ PairedIn(last'.matches, m.buyOrder.id, m.sellOrder.id))
                 /\ \A id \in others :
                       \/ ENABLED (/\ runMatchingCycle
                                   /\ PairedIn(last'.matches, id, m.sellOrder.id))
                       \/ ENABLED (/\ runMatchingCycle
                                   /\ PairedIn(last'.matches, m.buyOrder.id, id))

\* a settlement has failed on a running engine whose book holds a third
\* pending order beside the two that were returned to the pool
C22_Witness ==
    /\ AfterFailure
    /\ matchingTimer > 0
    /\ InBookWith(orderBooks, last.match, "pending")
    /\ Cardinality(PendingAt(Get(orderBooks, last.match.tokenAddress))) = 3

\* the token of the book that holds the order with this id
BookOf(books, id) ==
    CHOOSE k \in {books[i].key : i \in 1..Len(books)} :
        \E j \in 1..Len(Get(books, k)) : Get(books, k)[j].id = id

\* C23: an order that is in a book stays in that book over every step,
\* except the one pending order that a successful cancel with its nullifier
\* and commitment takes out and the two orders of a match whose settlement
\* completes; submit, start, stop, a matching pass and a failed settlement
\* take no order out of a book.
C23_OrderPersistence ==
    [][/\ \A id \in AllIds(orderBooks) \ AllIds(orderBooks') :
             LET o == OrderOf(orderBooks, id)
             IN \/ /\ last'.op = "cancelOrder" /\ last'.success
                   /\ o.status = "pending"
                   /\ o.nullifier = last'.nullifier
                   /\ o.commitment = last'.commitment
                   /\ Cardinality(AllIds(orderBooks) \ AllIds(orderBooks')) = 1
                \/ /\ last'.op = "executeMatch" /\ last'.outcome = "completed"
                   /\ id \in {last'.match.buyOrder.id, last'.match.sellOrder.id}
                   /\ o.status = "matched"
       /\ \A id \in AllIds(orderBooks) \cap AllIds(orderBooks') :
             BookOf(orderBooks', id) = BookOf(orderBooks, id)
       /\ last'.op \in {"submitOrder", "start", "stop", "runMatchingCycle"}
             => AllIds(orderBooks) \subseteq AllIds(orderBooks')
       /\ (last'.op = "executeMatch" /\ last'.outcome # "completed")
             => AllIds(orderBooks') = AllIds(orderBooks)]_vars

\* a settlement has completed and taken its two orders out of a book that
\* keeps a third order, on an engine that has had a fault and has formed
\* a second match
C23_Witness ==
    /\ AfterCompletion
    /\ failures = 1
    /\ Len(Get(orderBooks, last.match.tokenAddress)) = 1
    /\ stats.totalOrders = 3
    /\ uuid.match >= 2

\* (buy.maxPrice + sell.minPrice) / 2 for the two orders of a match
Midpoint(match) ==
    JsHalf(JsAdd(decryptOrderForExecution(match.buyOrder).maxPrice,
                 decryptOrderForExecution(match.sellOrder).minPrice))

Abs(n) == IF n < 0 THEN -n ELSE n

\* C24: the price of every execution is a number that is not negative, and
\* it differs from the midpoint of buy.maxPrice and sell.minPrice by at most
\* 0.05% of that midpoint (the midpoint itself when that is unbounded).
C24_PriceBound ==
    AfterCompletion =>
        LET price == last.execution.price
            midpoint == Midpoint(last.match)
        IN /\ price.t # "nan"
           /\ price.v >= 0
           /\ midpoint.t = "num" =>
                 /\ price.t = "num"
                 /\ Abs(price.v - midpoint.v) <= midpoint.v \div NoiseDivisor
           /\ midpoint.t = "inf" => price = midpoint

Statuses == {"pending", "matched", "executing", "completed", "failed"}

\* the changes of status the lifecycle allows
Transitions ==
    {<<"pending", "matched">>, <<"matched", "executing">>,
     <<"executing", "completed">>, <<"executing", "failed">>,
     <<"failed", "pending">>}

\* C25: the status of every order is one of pending, matched, executing,
\* completed and failed; over a step it stays or changes along pending ->
\* matched, matched -> executing, executing -> completed, executing ->
\* failed or failed -> pending; only a pass takes an order from pending to
\* matched; and the orders of a settlement that completes were executing.
C25_OrderLifecycle ==
    [][/\ \A o \in AllOrders(orderBooks') : o.status \in Statuses
       /\ \A id \in AllIds(orderBooks) \cap AllIds(orderBooks') :
             LET from == OrderOf(orderBooks, id).status
                 to == OrderOf(orderBooks', id).status
             IN /\ from = to \/ <<from, to>> \in Transitions
                /\ (from = "pending" /\ to = "matched")
                      => last'.op = "runMatchingCycle"
       /\ (last'.op = "executeMatch" /\ last'.outcome = "completed") =>
             \A id \in {last'.match.buyOrder.id, last'.match.sellOrder.id} :
                 /\ id \in AllIds(orderBooks)
                 /\ OrderOf(orderBooks, id).status = "executing"]_vars

\* the matches dispatched and not yet settled that refer to this order
InFlight(id) ==
    {x \in scheduled : id \in {x.match.buyOrder.id, x.match.sellOrder.id}}

\* C26: every order is referred to by at most one match that has been
\* dispatched and has not settled, and the orders of such a match are in the
\* book with status matched; a pass selects only orders that were pending
\* before it, none that was matched, also while earlier settlements are in
\* flight.
C26_OneInFlightMatch ==
    /\ \A id \in 1..uuid.order : Cardinality(InFlight(id)) <= 1
    /\ \A x \in scheduled : InBookWith(orderBooks, x.match, "matched")
    /\ AfterPass =>
          /\ FormedIds(last.calls) \subseteq
                {o.id : o \in {x \in AllOrders(last.before) : x.status = "pending"}}
          /\ \A x \in scheduled :
                x.pass < uuid.match - Formed(last.calls) =>
                    MatchOrderIds(last.matches)
                        \cap {x.match.buyOrder.id, x.match.sellOrder.id} = {}

\* a pass has run over a book that holds a pending order beside the two
\* orders of a match that is still in flight
C26_Witness ==
    /\ AfterPass
    /\ \E x \in scheduled :
          /\ x.match \notin {last.matches[m] : m \in 1..Len(last.matches)}
          /\ Cardinality(PendingAt(Get(last.before, x.match.tokenAddress))) = 1
          /\ Len(Get(last.before, x.match.tokenAddress)) = 3

\* C27: a pass calls findMatches for a token only if the book of the token
\* held at least minBatchSize orders with status pending, which is the count
\* that getStats reports for the token as pendingOrders, with hasLiquidity.
C27_GateOnPendingCount ==
    AfterPass =>
        \A k \in 1..Len(last.calls) :
            LET pool == getStats(last.before, stats).pools[last.calls[k].tokenAddress]
            IN /\ pool.pendingOrders = Len(last.calls[k].pending)
               /\ pool.pendingOrders >= minBatchSize
               /\ pool.hasLiquidity

\* the matches whose executor call has been made and has not ended
AwaitingExecutor == {x.match : x \in {y \in scheduled : y.stage = "swap"}}

\* C28: an Execution record is stored for a nullifier, and the orders of a
\* match leave the book with a completed settlement, only in a step that
\* ends an executor call made for that match with a result the executor
\* returned.
C28_ExecutionRequiresExecutor ==
    [][(\/ \E n \in DOMAIN pendingMatches' :
              n \notin DOMAIN pendingMatches \/ pendingMatches'[n] # pendingMatches[n]
        \/ last'.op = "executeMatch" /\ last'.outcome = "completed") =>
          /\ last'.op = "executeMatch"
          /\ last'.match \in AwaitingExecutor
          /\ last'.executor \in ExecutorStatuses
          /\ RecordsOfMatch(pendingMatches', last'.match.id) # {}]_vars

\* whether the order a match refers to is this order of a book
SameOrder(ref, o) == ref = OrderRef(o)

\* C29: every match a pass forms has the token of the book it was formed
\* from and pairs two different orders of that book, both pending before
\* the pass, the buyOrder one that decryptSide answers buy for and the
\* sellOrder one that it answers sell for.
C29_MatchWellFormed ==
    AfterPass =>
        \A k \in 1..Len(last.calls) :
            \A x \in 1..Len(last.calls[k].matches) :
                LET match == last.calls[k].matches[x]
                    book == Get(last.before, match.tokenAddress)
                IN /\ match.tokenAddress = last.calls[k].tokenAddress
                   /\ match.buyOrder.id # match.sellOrder.id
                   /\ match.buyOrder.tokenAddress = match.tokenAddress
                   /\ match.sellOrder.tokenAddress = match.tokenAddress
                   /\ \E j \in PendingAt(book) : SameOrder(match.buyOrder, book[j])
                   /\ \E j \in PendingAt(book) : SameOrder(match.sellOrder, book[j])
                   /\ decryptSide(match.buyOrder.encryptedSide) = "buy"
                   /\ decryptSide(match.sellOrder.encryptedSide) = "sell"

\* a pass over two books has formed a match from the second, whose first
\* order is its sell order
C29_Witness ==
    /\ AfterPass
    /\ Len(last.before) = 2
    /\ \E m \in 1..Len(last.matches) :
          /\ last.matches[m].tokenAddress = last.before[2].key
          /\ SameOrder(last.matches[m].sellOrder, last.before[2].orders[1])

\* whether the book of a token holds a pending order that decryptSide
\* answers buy for and one that it answers sell for
HasPair(tokenAddress) ==
    /\ Has(orderBooks, tokenAddress)
    /\ SideAt(Get(orderBooks, tokenAddress), "buy") # {}
    /\ SideAt(Get(orderBooks, tokenAddress), "sell") # {}

\* whether the pass that ran last has formed a match for the token
MatchFormed(tokenAddress) ==
    /\ AfterPass
    /\ \E k \in 1..Len(last.calls) :
          /\ last.calls[k].tokenAddress = tokenAddress
          /\ last.calls[k].matches # <<>>

Tokens == {"T1", "T2"}

\* C30: on a running engine, a book that holds a pending buy order and a
\* pending sell order leads to a match formed for its token, unless the
\* engine is stopped or a cancel leaves the book without such a pair first;
\* and the first pass in which nothing raises forms it.
C30_MatchingProgress ==
    /\ \A tokenAddress \in Tokens :
          (running /\ HasPair(tokenAddress))
              ~> (MatchFormed(tokenAddress) \/ ~running \/ ~HasPair(tokenAddress))
    /\ [][\A tokenAddress \in Tokens :
             (PassWithoutFault /\ HasPair(tokenAddress)) => MatchFormed(tokenAddress)']_vars

\* a pass has formed a match for a token whose book held a pending buy
\* order and a pending sell order beside two orders of another token
C30_Witness ==
    /\ MatchFormed("T1")
    /\ running
    /\ Len(last.before) = 2
    /\ Cardinality(SideAt(Get(last.before, "T1"), "buy")) = 1
    /\ Cardinality(SideAt(Get(last.before, "T1"), "sell")) = 1

\* a match of the orders with these two ids, for this token
MatchOf(tokenAddress, buyId, sellId) ==
    [tokenAddress |-> tokenAddress, buyOrder |-> [id |-> buyId],
     sellOrder |-> [id |-> sellId]]

\* the matches removeMatchedOrders is applied to: of any two ids, handed
\* out or not, for a token with or without a book
AnyMatches ==
    {MatchOf(tokenAddress, buyId, sellId) :
        tokenAddress \in {"T1", "T2", "T3"},
        buyId \in 1..MaxOrders + 1, sellId \in 1..MaxOrders + 1}

\* the orders of a sequence without those of the two ids, in their order
Without(orders, match) ==
    LET Keep(o) == o.id \notin {match.buyOrder.id, match.sellOrder.id}
    IN SelectSeq(orders, Keep)

\* C31: removeMatchedOrders, applied to the books of any state and any
\* match, leaves the Map with the same tokens, takes out of the book of the
\* match's token the orders with the two ids and no other, leaves the other
\* orders of that book in their order and every other book as it is,
\* changes nothing when the token has no book or the book has neither
\* order, and changes nothing when applied a second time.
C31_RemoveMatchedOrders ==
    \A match \in AnyMatches :
        LET after == removeMatchedOrders(orderBooks, match)
        IN /\ Len(after) = Len(orderBooks)
           /\ \A i \in 1..Len(orderBooks) :
                 /\ after[i].key = orderBooks[i].key
                 /\ after[i].orders =
                       IF orderBooks[i].key = match.tokenAddress
                       THEN Without(orderBooks[i].orders, match)
                       ELSE orderBooks[i].orders
           /\ (\/ ~Has(orderBooks, match.tokenAddress)
               \/ {match.buyOrder.id, match.sellOrder.id}
                     \cap {o.id : o \in {x \in AllOrders(orderBooks) :
                                            x.tokenAddress = match.tokenAddress}} = {})
                 => after = orderBooks
           /\ removeMatchedOrders(after, match) = after

\* a settlement has just taken its two orders out of the book of its
\* token, which stays in the Map without orders, while the book of another
\* token holds an order
C31_Witness ==
    /\ AfterCompletion
    /\ Len(orderBooks) = 2
    /\ Get(orderBooks, last.match.tokenAddress) = <<>>
    /\ Cardinality(AllOrders(orderBooks)) = 1
    /\ removeMatchedOrders(orderBooks, last.match) = orderBooks

\* a settlement attempt has run to its end, whichever way
AttemptFinished(l) ==
    l.op = "executeMatch" /\ l.outcome \in {"completed", "failed", "threw"}

\* C32: the step that ends a settlement attempt, also one in which the
\* publishing of the event throws after the executor call, either removes
\* both orders, stores a record of the match for both nullifiers and adds
\* one to totalMatches and to totalExecuted, or leaves both orders in the
\* book with status pending, stores no record and leaves the statistics as
\* they were.
C32_AllOrNothing ==
    [][AttemptFinished(last') =>
          LET m == last'.match
          IN \/ /\ m.buyOrder.id \notin AllIds(orderBooks')
                /\ m.sellOrder.id \notin AllIds(orderBooks')
                /\ checkMatchStatus(pendingMatches', m.buyOrder.nullifier) # Null
                /\ checkMatchStatus(pendingMatches', m.sellOrder.nullifier) # Null
                /\ checkMatchStatus(pendingMatches', m.buyOrder.nullifier).matchId = m.id
                /\ checkMatchStatus(pendingMatches', m.sellOrder.nullifier).matchId = m.id
                /\ stats'.totalMatches = stats.totalMatches + 1
                /\ stats'.totalExecuted = stats.totalExecuted + 1
             \/ /\ InBookWith(orderBooks', m, "pending")
                /\ pendingMatches' = pendingMatches
                /\ stats' = stats]_vars

\* C33: a submitOrder call that raises an error, whatever the order, has
\* added no order to any book and has not changed totalOrders.
C33_SubmitAtomicOnError ==
    [][(last'.op = "submitOrder" /\ last'.threw # "") =>
          /\ orderBooks' = orderBooks
          /\ stats'.totalOrders = stats.totalOrders]_vars

\* whether the order with this id is in a book with this status
HasStatus(id, status) ==
    \E o \in AllOrders(orderBooks) : o.id = id /\ o.status = status

\* C34: an order that has status matched is the order of a match whose
\* settlement is waiting, and it leads to the order being out of the books
\* (a settlement that completed) or pending in its book again; with stop()
\* called at any time.
C34_MatchedEventuallyResolved ==
    /\ [](\A id \in 1..Len(PairOrders) :
             HasStatus(id, "matched") => InFlight(id) # {})
    /\ \A id \in 1..Len(PairOrders) :
          HasStatus(id, "matched")
              ~> (id \notin AllIds(orderBooks) \/ HasStatus(id, "pending"))

\* a settlement has ended on an engine that was stopped while the match was
\* in flight
C34_Witness ==
    /\ AttemptFinished(last)
    /\ ~running /\ matchingTimer = 0
    /\ \A id \in {last.match.buyOrder.id, last.match.sellOrder.id} :
          ~HasStatus(id, "matched")

\* C35: a settlement that records an Execution is for two orders that are
\* in the book, matched, and are in no book after it; an order that is in
\* no book is in no match formed later and never in a book again, and the
\* uuid of an order is handed out once.  So no order is in two matches whose
\* Execution was recorded, re-matched after a failed settlement or not.
C35_SettlesAtMostOnce ==
    [][/\ (last'.op = "executeMatch" /\ last'.outcome = "completed") =>
             /\ InBookWith(orderBooks, last'.match, "matched")
             /\ last'.match.buyOrder.id # last'.match.sellOrder.id
             /\ \A id \in {last'.match.buyOrder.id, last'.match.sellOrder.id} :
                   /\ id \notin AllIds(orderBooks')
                   /\ \A x \in scheduled' :
                         id \notin {x.match.buyOrder.id, x.match.sellOrder.id}
       /\ \A id \in 1..uuid.order :
             id \notin AllIds(orderBooks) =>
                 /\ id \notin AllIds(orderBooks')
                 /\ InFlight(id)' \subseteq InFlight(id)
       /\ uuid'.order >= uuid.order
       /\ AllIds(orderBooks') \subseteq AllIds(orderBooks) \cup {uuid.order + 1}]_vars

\* the two orders of a match whose first settlement failed were matched
\* again, and the second match has settled
C35_Witness ==
    /\ AfterCompletion
    /\ last.match.id = 2
    /\ failures = 1
    /\ stats.totalOrders = 2
    /\ stats.totalExecuted = 1
    /\ AllOrders(orderBooks) = {}

\* the orders admitted that are neither in a book nor settled
Cancelled(books, st) ==
    st.totalOrders - Cardinality(AllOrders(books)) - 2 * st.totalExecuted

\* 1 when the condition holds, else 0
Count(condition) == IF condition THEN 1 ELSE 0

\* C36: totalOrders less the orders in the books and twice totalExecuted is
\* 0 at the start and grows by one with every successful cancel and with
\* nothing else; totalMatches and totalExecuted are equal, are 0 at the
\* start and grow by one with every settlement that succeeds and with
\* nothing else; no counter decreases.
C36_CounterConservation ==
    [][/\ Cancelled(orderBooks', stats')
             = Cancelled(orderBooks, stats)
                  + Count(last'.op = "cancelOrder" /\ last'.success)
       /\ Cancelled(orderBooks, stats) >= 0
       /\ stats'.totalExecuted
             = stats.totalExecuted
                  + Count(last'.op = "executeMatch" /\ last'.outcome = "completed")
       /\ stats'.totalMatches = stats'.totalExecuted
       /\ stats.totalMatches = stats.totalExecuted
       /\ stats'.totalExecuted = Len(emitted')
       /\ stats'.totalOrders >= stats.totalOrders]_vars

\* the orders that the findMatches calls of a pass for this token paired
PairedFor(calls, tokenAddress) ==
    UNION {MatchOrderIds(calls[k].matches) :
              k \in {x \in 1..Len(calls) : calls[x].tokenAddress = tokenAddress}}

\* C37: a submit leaves the book of every token but its own as it is; so
\* does a settlement, completed or failed, for every token but that of its
\* match; and in a pass the book of a token changes only in the orders that
\* the findMatches call for this token has paired.
C37_CrossTokenFrame ==
    [][\A i \in 1..Len(orderBooks) :
          /\ orderBooks'[i].key = orderBooks[i].key
          /\ (last'.op = "submitOrder" /\ last'.admitted # Null
              /\ last'.admitted.tokenAddress # orderBooks[i].key)
                => orderBooks'[i] = orderBooks[i]
          /\ (last'.op = "executeMatch"
              /\ last'.match.tokenAddress # orderBooks[i].key)
                => orderBooks'[i] = orderBooks[i]
          /\ last'.op = "runMatchingCycle" =>
                /\ Len(orderBooks'[i].orders) = Len(orderBooks[i].orders)
                /\ \A j \in 1..Len(orderBooks[i].orders) :
                      \/ orderBooks'[i].orders[j] = orderBooks[i].orders[j]
                      \/ /\ orderBooks[i].orders[j].id
                               \in PairedFor(last'.calls, orderBooks[i].key)
                         /\ orderBooks[i].orders[j].tokenAddress = orderBooks[i].key]_vars

\* the settlement of a match of one token has failed while the two orders
\* of another token are matched and wait for theirs
C37_Witness ==
    /\ AfterFailure
    /\ \E i \in 1..Len(orderBooks) :
          /\ orderBooks[i].key # last.match.tokenAddress
          /\ Len(orderBooks[i].orders) = 2
          /\ \A j \in 1..2 : orderBooks[i].orders[j].status = "matched"

====
